---- MODULE Spec2Model ----
(***************************************************************************)
(* State-machine model of bob.bio.face.extractor.LGBPHS: construction,     *)
(* __call__ (transform buffer cache, per-wavelet LBP histogram passes,     *)
(* _fill layout) and _sparsify.                                            *)
(*                                                                         *)
(* Conventions.  A numpy array is a record [isNone, shape, data] with data *)
(* the row-major flattening; floats are modelled by integers.  Python None *)
(* for an array is NoArray; for split_histogram it is the string "None".   *)
(* A scalar block parameter is a 1-tuple <<v>>, a (h, w) pair a 2-tuple.   *)
(* Python indices are 0-based, TLA+ sequences 1-based.                     *)
(***************************************************************************)
EXTENDS Integers, Sequences, FiniteSets, TLC

\* ---------------------------------------------------------------- bounds
MaxDim == 2          \* image rows range over 0..MaxDim
MaxScales == 2       \* gabor_scales ranges over 1..MaxScales
MaxOps == 2          \* operations performed on one instance after construction
MaxLen == 2          \* length of the dense arrays handed to _sparsify directly

VARIABLES
  args,       \* the arguments of the last LGBPHS(...) constructor call
  self,       \* the instance: its attributes, alive = FALSE before construction
  last,       \* observation of the last operation: inputs, outcome, output
  nops,       \* number of operations performed so far
  libStrict,  \* whether the bob primitives reject degenerate geometry by raising
  script      \* one run of the baselines script: its arguments, position, effects

vars == <<args, self, last, nops, libStrict, script>>

\* ------------------------------------------------------- values and arrays
NoneVal == "None"

NoArray == [isNone |-> TRUE, shape |-> <<>>, data |-> <<>>]

Min(a, b) == IF a < b THEN a ELSE b

Max(a, b) == IF a > b THEN a ELSE b

RECURSIVE Prod(_)
Prod(s) == IF s = <<>> THEN 1 ELSE Head(s) * Prod(Tail(s))

\* numpy.ndarray(shape, 'float64'): every cell holds whatever was in memory (g)
NewArray(shape, g) ==
  [isNone |-> FALSE, shape |-> shape, data |-> [i \in 1..Prod(shape) |-> g]]

\* number of columns of a 1-D array seen as one row, or of a 2-D array
NCols(arr) == arr.shape[Len(arr.shape)]

NRows(arr) == IF Len(arr.shape) = 1 THEN 1 ELSE arr.shape[1]

\* the cells [row, s1 : s1 + L] of arr set to rhs with numpy's rules: an
\* out-of-range row index raises IndexError, the right side must have the
\* length of the slice or length 1 (broadcast)
SetRun(arr, row, s1, L, rhs) ==
  IF row >= NRows(arr) THEN [err |-> "IndexError", arr |-> arr]
  ELSE IF Len(rhs) # L /\ Len(rhs) # 1 THEN [err |-> "ValueError", arr |-> arr]
  ELSE [err |-> "",
        arr |-> [arr EXCEPT !.data =
                   SubSeq(@, 1, row * NCols(arr) + s1)
                     \o (IF Len(rhs) = L THEN rhs ELSE [i \in 1..L |-> rhs[1]])
                     \o SubSeq(@, row * NCols(arr) + s1 + L + 1, Len(@))]]

\* arr[s:e] = rhs (1-D) or arr[row, s:e] = rhs (2-D): the slice is clipped to
\* the array
SetSlice(arr, row, s, e, rhs) ==
  SetRun(arr, row, Min(s, NCols(arr)),
         Max(0, Min(e, NCols(arr)) - Min(s, NCols(arr))), rhs)

\* ------------------------------------------------------------ construction
\* isinstance(x, (tuple, list)) for a block parameter
IsTuple(x) == Len(x) = 2

\* the block_size / block_overlap normalisation of __init__
AsPair(x) == IF IsTuple(x) THEN x ELSE <<x[1], x[1]>>

\* truthiness of split_histogram: None and the empty string are falsy
Truthy(split) == split # NoneVal /\ split # ""

NoBuffer == [id |-> 0, shape |-> <<>>, content |-> 0]

NoSelf ==
  [alive |-> FALSE, block_size |-> <<>>, block_overlap |-> <<>>,
   scales |-> 0, directions |-> 0, use_phases |-> FALSE,
   lbp_neighbors |-> 0, lbp_uniform |-> FALSE,
   split |-> NoneVal, sparse |-> FALSE,
   trafo_image |-> NoBuffer, n_bins |-> 0, n_blocks |-> 0]

\* InitError with the two dimensions of the overlap check joined by "and"
InitError_bothDims(a) ==
  LET bs == AsPair(a.block_size)
      bo == AsPair(a.block_overlap)
  IN  IF bs[1] < bo[1] /\ bs[2] < bo[2] THEN "ValueError"
      ELSE IF a.sparse_histogram /\ Truthy(a.split_histogram) THEN "ValueError"
      ELSE ""

\* the ValueError checks of __init__, in the order the constructor makes them
InitError(a) ==
  LET bs == AsPair(a.block_size)
      bo == AsPair(a.block_overlap)
  IN  IF bs[1] < bo[1] \/ bs[2] < bo[2] THEN "ValueError"
      ELSE IF a.sparse_histogram /\ Truthy(a.split_histogram) THEN "ValueError"
      ELSE ""

\* the instance __init__ leaves behind when it raises nothing
InitSelf(a) ==
  [alive |-> TRUE,
   block_size |-> AsPair(a.block_size),
   block_overlap |-> AsPair(a.block_overlap),
   scales |-> a.gabor_scales, directions |-> a.gabor_directions,
   use_phases |-> a.use_gabor_phases,
   lbp_neighbors |-> a.lbp_neighbor_count, lbp_uniform |-> a.lbp_uniform,
   split |-> a.split_histogram, sparse |-> a.sparse_histogram,
   trafo_image |-> NoBuffer, n_bins |-> 0, n_blocks |-> 0]

\* ------------------------------------------------- the bob library primitives
\* self.gwt.number_of_wavelets of the Transform built from scales and directions
NumberOfWavelets(s) == s.scales * s.directions

\* number of LBP codes of self.lbp, the second dimension of what lbphs returns
LbpBins(s) ==
  IF s.lbp_uniform
    THEN s.lbp_neighbors * (s.lbp_neighbors - 1) + 3
    ELSE 2 ^ s.lbp_neighbors

\* a block cannot be placed along a dimension: no room, or a step of zero
DegenerateAlong(size, b, o) == size < b \/ b = o

\* blocks of size b overlapping by o that tile a dimension of the given size
BlocksAlong(size, b, o) ==
  IF DegenerateAlong(size, b, o) THEN 0 ELSE ((size - b) \div (b - o)) + 1

\* the first dimension of what lbphs returns for a plane of the given shape
BlockCount(s, shape) ==
  BlocksAlong(shape[1], s.block_size[1], s.block_overlap[1])
    * BlocksAlong(shape[2], s.block_size[2], s.block_overlap[2])

Degenerate(s, shape) ==
  \/ DegenerateAlong(shape[1], s.block_size[1], s.block_overlap[1])
  \/ DegenerateAlong(shape[2], s.block_size[2], s.block_overlap[2])

\* bin k of the LBP histogram of block b of the magnitude (kind 0) or phase
\* (kind 1) plane of wavelet j of the transform of the image with the given
\* content: an uninterpreted value, distinct for distinct arguments unless zero
HistValue(content, kind, j, b, k) ==
  LET code == 1 + k + 32 * (b + 32 * (j + 32 * (kind + 2 * content)))
  IN  IF code % 3 = 0 THEN 0 ELSE code

\* a departure of the histogram primitive from its contract: the pass (0-based
\* position among the passes of one call, magnitude j = j, phase j = j + wavelets)
\* whose result has dBlocks more blocks and dBins more bins than it should
NoDev == [pass |-> -1, dBlocks |-> 0, dBins |-> 0]

\* bob.ip.base.lbphs(plane, self.lbp, self.block_size, self.block_overlap) on
\* plane j of the transform buffer
Lbphs(s, strict, kind, j, dev) ==
  LET shape == <<s.trafo_image.shape[2], s.trafo_image.shape[3]>>
      hit   == dev.pass = j + kind * NumberOfWavelets(s)
      rows  == Max(0, BlockCount(s, shape) + (IF hit THEN dev.dBlocks ELSE 0))
      cols  == Max(0, LbpBins(s) + (IF hit THEN dev.dBins ELSE 0))
  IN  IF strict /\ Degenerate(s, shape)
        THEN [err |-> "LibraryError", rows |-> 0, cols |-> 0, blocks |-> <<>>]
        ELSE [err |-> "", rows |-> rows, cols |-> cols,
              blocks |-> [b \in 1..rows |->
                            [k \in 1..cols |->
                               HistValue(s.trafo_image.content, kind, j, b - 1, k - 1)]]]

\* ------------------------------------------------------------------- _fill
\* FillTarget with the offset of pass j in the 1-D layout lacking n_blocks and
\* the row of the "both" layout stepping by n_bins
FillTarget_passStride(s, j, b) ==
  IF s.split = NoneVal
    THEN [row |-> 0,
          from |-> j * s.n_bins + b * s.n_bins,
          to   |-> j * s.n_bins + (b + 1) * s.n_bins]
  ELSE IF s.split = "blocks"
    THEN [row |-> b, from |-> j * s.n_bins, to |-> (j + 1) * s.n_bins]
  ELSE IF s.split = "wavelets"
    THEN [row |-> j, from |-> b * s.n_bins, to |-> (b + 1) * s.n_bins]
  ELSE [row |-> j * s.n_bins + b, from |-> 0, to |-> s.n_bins]

\* where _fill puts block b of pass j: the row index (0 for the 1-D array) and
\* the column slice [from, to)
FillTarget(s, j, b) ==
  IF s.split = NoneVal
    THEN [row |-> 0,
          from |-> j * s.n_bins * s.n_blocks + b * s.n_bins,
          to   |-> j * s.n_bins * s.n_blocks + (b + 1) * s.n_bins]
  ELSE IF s.split = "blocks"
    THEN [row |-> b, from |-> j * s.n_bins, to |-> (j + 1) * s.n_bins]
  ELSE IF s.split = "wavelets"
    THEN [row |-> j, from |-> b * s.n_bins, to |-> (b + 1) * s.n_bins]
  ELSE [row |-> j * s.n_blocks + b, from |-> 0, to |-> s.n_bins]

IsSplitMode(split) == split \in {NoneVal, "blocks", "wavelets", "both"}

\* the assignment of one block to its target
SetBlock(arr, t, rhs) == SetSlice(arr, t.row, t.from, t.to, rhs)

\* the loop "for b in range(self.n_blocks)" of _fill from block b on; an
\* exception of numpy (w.err) ends it
RECURSIVE FillFrom(_, _, _, _, _)
RECURSIVE FillNext(_, _, _, _, _)
FillNext(s, w, blocks, j, b) ==
  IF w.err # "" THEN w ELSE FillFrom(s, w.arr, blocks, j, b + 1)

FillFrom(s, arr, blocks, j, b) ==
  IF b >= s.n_blocks \/ ~IsSplitMode(s.split) THEN [err |-> "", arr |-> arr]
  ELSE IF b >= Len(blocks) THEN [err |-> "IndexError", arr |-> arr]
  ELSE FillNext(s, SetBlock(arr, FillTarget(s, j, b), blocks[b + 1]), blocks, j, b)

Fill(s, arr, blocks, j) == FillFrom(s, arr, blocks, j, 0)

\* --------------------------------------------------------------- _sparsify
\* SparseRows without the test for zero
SparseRows_keepZeros(data) ==
  [indices |-> [q \in 1..Len(data) |-> q - 1], values |-> data]

\* the loop "for i in range(array.shape[0])" of _sparsify: the indices i with
\* array[i] != 0 in the order of the loop, and the values found there
SparseRows(data) ==
  [indices |-> SelectSeq([q \in 1..Len(data) |-> q - 1], LAMBDA i : data[i + 1] # 0),
   values  |-> SelectSeq(data, LAMBDA v : v # 0)]

IsSparseShape(array) == Len(array.shape) = 2 /\ array.shape[1] = 2

\* numpy.array([indices, values], dtype = numpy.float64)
SparseArray(r) ==
  [err |-> "",
   out |-> [isNone |-> FALSE,
            shape  |-> <<2, Len(r.indices)>>,
            data   |-> r.indices \o r.values]]

\* Sparsify without the early return for an array that is sparse already
Sparsify_noShortcut(s, array) ==
  IF ~s.sparse THEN [err |-> "", out |-> array]
  ELSE IF array.isNone THEN [err |-> "AttributeError", out |-> NoArray]
  ELSE IF Len(array.shape) # 1 THEN [err |-> "AssertionError", out |-> NoArray]
  ELSE SparseArray(SparseRows(array.data))

\* _sparsify(array): the exception ("" for a return) and the returned array
Sparsify(s, array) ==
  IF ~s.sparse THEN [err |-> "", out |-> array]
  ELSE IF array.isNone THEN [err |-> "AttributeError", out |-> NoArray]
  ELSE IF IsSparseShape(array) THEN [err |-> "", out |-> array]
  ELSE IF Len(array.shape) # 1 THEN [err |-> "AssertionError", out |-> NoArray]
  ELSE SparseArray(SparseRows(array.data))

\* ---------------------------------------------------------------- __call__
NoImage == [isArray |-> FALSE, dtype |-> "", shape |-> <<>>, content |-> 0]

\* the three asserts that open __call__
ValidImage(image) ==
  /\ Len(image.shape) = 2
  /\ image.isArray
  /\ image.dtype = "float64"

\* NeedsNewBuffer without the comparison of shapes
NeedsNewBuffer_onlyNone(s, image) == s.trafo_image.id = 0

\* self.trafo_image is None or self.trafo_image.shape[1:3] != image.shape
NeedsNewBuffer(s, image) ==
  \/ s.trafo_image.id = 0
  \/ <<s.trafo_image.shape[2], s.trafo_image.shape[3]>> # image.shape

\* the buffer after "create trafo image": a fresh numpy.ndarray (identity id,
\* uninitialised content g) when one is needed, the cached one otherwise
EnsureBuffer(s, image, id, g) ==
  IF NeedsNewBuffer(s, image)
    THEN [s EXCEPT !.trafo_image =
            [id |-> id,
             shape |-> <<NumberOfWavelets(s), image.shape[1], image.shape[2]>>,
             content |-> g]]
    ELSE s

IsEmptyImage(image) == image.shape[1] = 0 \/ image.shape[2] = 0

\* Transform run only on a buffer that holds no response yet
Transform_onlyFresh(s, image, strict) ==
  IF strict /\ IsEmptyImage(image)
    THEN [err |-> "LibraryError", self |-> s]
  ELSE IF s.trafo_image.content > 0
    THEN [err |-> "", self |-> s]
  ELSE [err |-> "", self |-> [s EXCEPT !.trafo_image.content = image.content]]

\* self.gwt.transform(image, self.trafo_image): every plane of the buffer is
\* overwritten with the response to the image
Transform(s, image, strict) ==
  IF strict /\ IsEmptyImage(image)
    THEN [err |-> "LibraryError", self |-> s]
    ELSE [err |-> "", self |-> [s EXCEPT !.trafo_image.content = image.content]]

\* JetLength without the factor for the phases
JetLength_noPhases(s) == NumberOfWavelets(s)

\* jet_length, the number of passes of one call
JetLength(s) == NumberOfWavelets(s) * (IF s.use_phases THEN 2 ELSE 1)

\* OutputShape with the 1-D shape for every split value that is no 2-D mode
OutputShape_flatDefault(s) ==
  IF s.split = "blocks" THEN <<s.n_blocks, s.n_bins * JetLength(s)>>
  ELSE IF s.split = "wavelets" THEN <<JetLength(s), s.n_bins * s.n_blocks>>
  ELSE IF s.split = "both" THEN <<JetLength(s) * s.n_blocks, s.n_bins>>
  ELSE <<s.n_blocks * s.n_bins * JetLength(s)>>

\* the shape chosen in the body of the wavelet loop; <<>> stands for the raise
OutputShape(s) ==
  IF s.split = NoneVal THEN <<s.n_blocks * s.n_bins * JetLength(s)>>
  ELSE IF s.split = "blocks" THEN <<s.n_blocks, s.n_bins * JetLength(s)>>
  ELSE IF s.split = "wavelets" THEN <<JetLength(s), s.n_bins * s.n_blocks>>
  ELSE IF s.split = "both" THEN <<JetLength(s) * s.n_blocks, s.n_bins>>
  ELSE <<>>

\* A call in progress is a record st: the instance, the local lgbphs_array, how
\* often it was allocated, the exception raised ("" for none) and the shapes
\* the passes of lbphs returned so far.

\* the phase half of one iteration of the wavelet loop: lbphs on the phase
\* plane (ph), then _fill at pass index j + number_of_wavelets (f)
PhaseDone(st, ph, f) ==
  [st EXCEPT !.arr = f.arr, !.err = f.err,
             !.passes = Append(@, <<ph.rows, ph.cols>>)]

\* PhaseFill writing the phase histograms at pass index j, over the magnitudes
PhaseFill_samePass(st, ph, j) ==
  IF ph.err # "" THEN [st EXCEPT !.err = ph.err]
  ELSE PhaseDone(st, ph, Fill(st.self, st.arr, ph.blocks, j))

PhaseFill(st, ph, j) ==
  IF ph.err # "" THEN [st EXCEPT !.err = ph.err]
  ELSE PhaseDone(st, ph, Fill(st.self, st.arr, ph.blocks, j + NumberOfWavelets(st.self)))

PhasePass(st, strict, j, dev) ==
  IF ~st.self.use_phases THEN st
  ELSE PhaseFill(st, Lbphs(st.self, strict, 1, j, dev), j)

\* the magnitude half: lbphs on the magnitude plane (ab), n_bins and n_blocks
\* stored, the shape computed or the ValueError raised, the output array
\* allocated when there is none yet, the blocks filled in (f)
AbsDone(st, f) == [st EXCEPT !.arr = f.arr, !.err = f.err]

AbsFill(st, ab, j) == AbsDone(st, Fill(st.self, st.arr, ab.blocks, j))

AbsAlloc(st, shape, ab, j, g) ==
  IF shape = <<>> THEN [st EXCEPT !.err = "ValueError"]
  ELSE AbsFill(IF st.arr.isNone
                 THEN [st EXCEPT !.arr = NewArray(shape, g), !.allocs = @ + 1]
                 ELSE st,
               ab, j)

AbsStore(st, ab, j, g) ==
  IF ab.err # "" THEN [st EXCEPT !.err = ab.err]
  ELSE AbsAlloc([st EXCEPT !.self.n_bins = ab.cols, !.self.n_blocks = ab.rows,
                           !.passes = Append(@, <<ab.rows, ab.cols>>)],
                OutputShape([st.self EXCEPT !.n_bins = ab.cols, !.n_blocks = ab.rows]),
                ab, j, g)

AbsPass(st, strict, j, dev, g) ==
  AbsStore(st, Lbphs(st.self, strict, 0, j, dev), j, g)

\* "for j in range(self.gwt.number_of_wavelets)" from wavelet j on
RECURSIVE WaveletLoop(_, _, _, _, _)
RECURSIVE WaveletNext(_, _, _, _, _)
WaveletNext(a, strict, j, dev, g) ==
  IF a.err # "" THEN a
  ELSE WaveletLoop(PhasePass(a, strict, j, dev), strict, j + 1, dev, g)

WaveletLoop(st, strict, j, dev, g) ==
  IF j >= NumberOfWavelets(st.self) \/ st.err # "" THEN st
  ELSE WaveletNext(AbsPass(st, strict, j, dev, g), strict, j, dev, g)

\* __call__(image) on instance s.  id names a buffer allocated by this call, g
\* is what freshly allocated memory holds, dev a departure of lbphs from its
\* contract.  The result: the instance afterwards, the exception ("" for a
\* return), the returned array, and the local lgbphs_array with the number of
\* times it was allocated and the shapes the passes of lbphs returned.
CallFailed(e, s) ==
  [self |-> s, err |-> e, output |-> NoArray, dense |-> NoArray,
   allocs |-> 0, passes |-> <<>>]

\* "return self._sparsify(lgbphs_array)"
CallReturn(st, sp) ==
  [self |-> st.self, err |-> sp.err, output |-> sp.out,
   dense |-> st.arr, allocs |-> st.allocs, passes |-> st.passes]

CallFilled(st) ==
  IF st.err # ""
    THEN [self |-> st.self, err |-> st.err, output |-> NoArray,
          dense |-> st.arr, allocs |-> st.allocs, passes |-> st.passes]
    ELSE CallReturn(st, Sparsify(st.self, st.arr))

CallTransformed(tr, strict, g, dev) ==
  IF tr.err # "" THEN CallFailed(tr.err, tr.self)
  ELSE CallFilled(WaveletLoop([self |-> tr.self, arr |-> NoArray, allocs |-> 0,
                               err |-> "", passes |-> <<>>], strict, 0, dev, g))

CallResult(s, image, strict, id, g, dev) ==
  IF ~ValidImage(image) THEN CallFailed("AssertionError", s)
  ELSE CallTransformed(Transform(EnsureBuffer(s, image, id, g), image, strict),
                       strict, g, dev)

\* ------------------------------------------------------------------ inputs
SplitValues == {NoneVal, "blocks", "wavelets", "both", "", "rows"}

MakeArgs(bs, bo, sc, di, ph, un, sp, spl) ==
  [block_size |-> bs, block_overlap |-> bo,
   gabor_scales |-> sc, gabor_directions |-> di, use_gabor_phases |-> ph,
   lbp_neighbor_count |-> 1, lbp_uniform |-> un,
   sparse_histogram |-> sp, split_histogram |-> spl]

\* every phase, sparse and split setting over 1x1 blocks, for wavelet families
\* of 1..MaxScales scales in one direction and of one scale in two directions
WaveletFamilies ==
  { <<sc, 1>> : sc \in 1..MaxScales } \cup { <<1, 2>> }

LayoutArgs ==
  { MakeArgs(<<1>>, <<0>>, w[1], w[2], ph, TRUE, sp, spl) :
      w \in WaveletFamilies, ph \in BOOLEAN, sp \in BOOLEAN, spl \in SplitValues }

\* (block_size, block_overlap) arguments: scalars and pairs, overlaps below,
\* equal to and above the block size, in one dimension or both
BlockArgs ==
  { <<<<2>>, <<1>>>>, <<<<1, 2>>, <<0, 1>>>>, <<<<2, 1>>, <<0>>>>,
    <<<<2>>, <<2>>>>, <<<<1>>, <<2>>>>, <<<<2, 1>>, <<1, 2>>>>, <<<<1, 2>>, <<2, 1>>>>,
    <<<<2, 2>>, <<3>>>> }

GeometryArgs ==
  { MakeArgs(ba[1], ba[2], 1, 1, FALSE, un, FALSE, NoneVal) :
      ba \in BlockArgs, un \in BOOLEAN }

ConstructorArgs == LayoutArgs \cup GeometryArgs

NoArgs == MakeArgs(<<>>, <<>>, 0, 0, FALSE, FALSE, FALSE, NoneVal)

\* float64 images, empty ones among them, two contents for the largest shape;
\* and the arguments the asserts of __call__ are there for
Images ==
  { [isArray |-> TRUE, dtype |-> "float64", shape |-> <<r, 2>>, content |-> 1] :
      r \in 0..MaxDim }
  \cup { [isArray |-> TRUE, dtype |-> "float64", shape |-> <<MaxDim, 0>>, content |-> 1],
         [isArray |-> TRUE, dtype |-> "float64", shape |-> <<0, 0>>, content |-> 1], [isArray |-> TRUE, dtype |-> "float64", shape |-> <<MaxDim, 2>>, content |-> 2],
         [isArray |-> TRUE, dtype |-> "uint8", shape |-> <<MaxDim, 2>>, content |-> 1],
         [isArray |-> TRUE, dtype |-> "float64", shape |-> <<MaxDim>>, content |-> 1],
         [isArray |-> TRUE, dtype |-> "float64", shape |-> <<1, MaxDim, 2>>, content |-> 1],
         [isArray |-> FALSE, dtype |-> "float64", shape |-> <<MaxDim, 2>>, content |-> 1] }

\* what a freshly allocated numpy.ndarray may hold
Garbage == {-1, -2}

Dense1D ==
  UNION { { [isNone |-> FALSE, shape |-> <<n>>, data |-> d] : d \in [1..n -> 0..2] } :
          n \in 0..MaxLen }

\* arrays handed to _sparsify: dense histograms, their sparse forms, a 2-row
\* array that is no sparse form of anything, and a 2-D array that has 3 rows
SparsifyInputs ==
  Dense1D
  \cup { Sparsify([sparse |-> TRUE], d).out : d \in Dense1D }
  \cup { [isNone |-> FALSE, shape |-> <<2, 2>>, data |-> <<0, 0, 0, 5>>],
         [isNone |-> FALSE, shape |-> <<3, 1>>, data |-> <<1, 0, 2>>] }

\* departures of lbphs from its contract in one pass of a call
Deviations(s) ==
  { [pass |-> p, dBlocks |-> d[1], dBins |-> d[2]] :
      p \in 0..(JetLength(s) - 1), d \in {<<1, 0>>, <<-1, 0>>, <<0, 1>>, <<0, -1>>} }

\* ----------------------------------------------------------------- actions
\* no run of the baselines script
NoScript == [pc |-> "none"]

NoLast ==
  [op |-> "none", image |-> NoImage, input |-> NoArray, err |-> "",
   output |-> NoArray, dense |-> NoArray, allocs |-> 0, passes |-> <<>>]

Init ==
  /\ args = NoArgs
  /\ self = NoSelf
  /\ last = NoLast
  /\ nops = 0
  /\ libStrict \in BOOLEAN
  /\ script = NoScript

\* LGBPHS(**a): an instance, or the ValueError of __init__ and no instance
Construct(a) ==
  /\ ~self.alive
  /\ last.op = "none"
  /\ args' = a
  /\ self' = IF InitError(a) = "" THEN InitSelf(a) ELSE NoSelf
  /\ last' = [NoLast EXCEPT !.op = "init", !.err = InitError(a)]
  /\ UNCHANGED <<nops, libStrict, script>>

\* the state after a call with result r
CallDone(image, r) ==
  /\ self' = r.self
  /\ last' = [op |-> "call", image |-> image, input |-> NoArray,
              err |-> r.err, output |-> r.output, dense |-> r.dense,
              allocs |-> r.allocs, passes |-> r.passes]
  /\ nops' = nops + 1
  /\ UNCHANGED <<args, libStrict, script>>

\* self(image), the histogram primitive possibly departing from its contract
CallWith(image, g, dev) ==
  /\ self.alive
  /\ nops < MaxOps
  /\ CallDone(image, CallResult(self, image, libStrict, self.trafo_image.id + 1, g, dev))

Call == \E image \in Images, g \in Garbage : CallWith(image, g, NoDev)

DoConstruct == \E a \in ConstructorArgs : Construct(a)

Next == DoConstruct \/ Call

Spec == Init /\ [][Next]_vars

\* ---- the same instance with a histogram primitive that may break its contract
FaultyArgs ==
  { a \in LayoutArgs :
      /\ a.gabor_directions = 1
      /\ IsSplitMode(a.split_histogram)
      /\ ~a.sparse_histogram }

InitFaulty ==
  /\ args \in FaultyArgs
  /\ self = InitSelf(args)
  /\ last = NoLast
  /\ nops = 0
  /\ libStrict = TRUE
  /\ script = NoScript

FaultyCall ==
  \E image \in Images, g \in Garbage, dev \in Deviations(self) :
    CallWith(image, g, dev)

NextFaulty == Call \/ FaultyCall

SpecFaulty == InitFaulty /\ [][NextFaulty]_vars

\* ---- _sparsify as a function: applied to an array, then to its own result
SparsifyArgs ==
  { a \in LayoutArgs :
      /\ a.gabor_scales = 1 /\ a.gabor_directions = 1 /\ ~a.use_gabor_phases
      /\ a.split_histogram \in {NoneVal, "wavelets"}
      /\ InitError(a) = "" }

InitSparsify ==
  /\ args \in SparsifyArgs
  /\ self = InitSelf(args)
  /\ \E x \in SparsifyInputs : last = [NoLast EXCEPT !.op = "given", !.output = x]
  /\ nops = 0
  /\ libStrict = TRUE
  /\ script = NoScript

\* the state after _sparsify(x) with result r
SparsifyDone(x, r) ==
  /\ last' = [NoLast EXCEPT !.op = "sparsify", !.input = x,
                            !.err = r.err, !.output = r.out]
  /\ nops' = nops + 1
  /\ UNCHANGED <<args, self, libStrict, script>>

\* self._sparsify(x), x the given array or what the previous application returned
SparsifyOp ==
  /\ last.op \in {"given", "sparsify"}
  /\ last.err = ""
  /\ nops < MaxOps
  /\ SparsifyDone(last.output, Sparsify(self, last.output))

SpecSparsify == InitSparsify /\ [][SparsifyOp]_vars

\* ------------------------------------------- the baselines script: main()
MaxAlgs == 2         \* number of algorithms named with --algorithms

\* a key that a configuration does not have
Missing == "<missing>"

Config(eyes, noEyes, ex, alg, grid, scr) ==
  [preprocessor |-> <<eyes, noEyes>>, extractor |-> ex, algorithm |-> alg,
   grid |-> grid, script |-> scr]

\* all_algorithms with both the GMM and the CSU extensions loaded
all_algorithms ==
  {"eigenface", "lda", "gabor-graph", "lgbphs", "plda", "bic",
   "gmm", "isv", "ivector", "lrpca", "lda-ir"}

CONFIGURATIONS ==
  [al \in all_algorithms |->
    CASE al = "eigenface" ->
           Config("face-crop-eyes", "base", "linearize", "pca", Missing, Missing)
      [] al = "lda" ->
           Config("face-crop-eyes", "base", "eigenface", "lda", Missing, Missing)
      [] al = "plda" ->
           Config("face-crop-eyes", "base", "linearize", "pca+plda", "demanding", Missing)
      [] al = "gabor-graph" ->
           Config("inorm-lbp-crop", "inorm-lbp", "grid-graph", "gabor-jet", Missing, Missing)
      [] al = "lgbphs" ->
           Config("tan-triggs-crop", "tan-triggs", "lgbphs", "histogram", Missing, Missing)
      [] al = "bic" ->
           Config("face-crop-eyes", "base", "grid-graph", "bic-jets", "demanding", Missing)
      [] al = "gmm" ->
           Config("tan-triggs-crop", "tan-triggs", "dct-blocks", "gmm",
                  "demanding", "./bin/verify_gmm.py")
      [] al = "isv" ->
           Config("tan-triggs-crop", "tan-triggs", "dct-blocks", "isv",
                  "demanding", "./bin/verify_isv.py")
      [] al = "ivector" ->
           Config("tan-triggs-crop", "tan-triggs", "dct-blocks", "ivector-cosine",
                  "demanding", "./bin/verify_ivector.py")
      [] al = "lrpca" ->
           Config("lrpca", NoneVal, "lrpca", "lrpca", Missing, Missing)
      [] al = "lda-ir" ->
           Config("lda-ir", NoneVal, "lda-ir", "lda-ir", Missing, Missing)]

has_eyes(a) == a.database # "atnt"

has_zt_norm(a) == a.database \in {"banca", "mobio", "multipie", "scface"}

has_eval(a) == a.database \in {"banca", "mobio", "multipie", "scface", "xm2vts"}

\* the copy of the configuration with its defaults for 'grid' and 'script'
Setup(a, algorithm) ==
  [CONFIGURATIONS[algorithm] EXCEPT
     !.grid   = IF @ = Missing THEN "grid" ELSE @,
     !.script = IF @ = Missing \/ (~a.grid /\ a.parallel = NoneVal)
                  THEN "./bin/verify.py" ELSE @]

\* setup['preprocessor'][0 if has_eyes else 1]
Preprocessor(a, algorithm) ==
  CONFIGURATIONS[algorithm].preprocessor[IF has_eyes(a) THEN 1 ELSE 2]

\* 'bob.bio.base.grid.Grid("local", number_of_parallel_processes=%d)' % n
LocalGrid(n) ==
  "bob.bio.base.grid.Grid(\"local\", number_of_parallel_processes=" \o n \o ")"

\* the head of the command: script, database, the three resources, directory
CommandHead(a, setup, preprocessor, algorithm) ==
  <<setup.script, "--database", a.database, "--preprocessor", preprocessor,
    "--extractor", setup.extractor, "--algorithm", setup.algorithm,
    "--sub-directory", a.baseline_directory \o "/" \o algorithm>>

\* the options appended to the command; --temp-directory, --result-directory,
\* the verbosity and the passed-through parameters are left at their defaults
CommandOptions(a, setup) ==
     (IF a.grid THEN <<"--grid", setup.grid, "--stop-on-failure">> ELSE <<>>)
  \o (IF a.parallel # NoneVal
        THEN <<"--grid", LocalGrid(a.parallel), "--run-local-scheduler",
               "--stop-on-failure">>
        ELSE <<>>)
  \o (IF has_zt_norm(a) /\ a.zt_norm THEN <<"--zt-norm">> ELSE <<>>)
  \o (IF has_eval(a) THEN <<"--groups", "dev", "eval">> ELSE <<>>)

Command(a, algorithm) ==
     CommandHead(a, Setup(a, algorithm), Preprocessor(a, algorithm), algorithm)
  \o CommandOptions(a, Setup(a, algorithm))

HasNone(command) == \E k \in 1..Len(command) : command[k] = NoneVal

\* what bob.bio.base.tools.command_line and subprocess.call do with a None in
\* the argument list is decided outside this repository
Helpers == {"lenient", "log_raises", "call_raises"}

\* bob.bio.base.tools.command_line(command) raises
LogRaises(command, helpers) == HasNone(command) /\ helpers = "log_raises"

\* subprocess.call(command) is reached
Called(a, command, helpers) == ~a.dry_run /\ ~LogRaises(command, helpers)

\* subprocess.call(command) raises
CallRaises(a, command, helpers) ==
  Called(a, command, helpers) /\ HasNone(command) /\ helpers = "call_raises"

\* one iteration of "for algorithm in args.algorithms": what it did
Iteration(a, algorithm, command, helpers) ==
  [algorithm |-> algorithm,
   warned    |-> Preprocessor(a, algorithm) = NoneVal,
   command   |-> command,
   called    |-> Called(a, command, helpers),
   err       |-> IF LogRaises(command, helpers) \/ CallRaises(a, command, helpers)
                   THEN "TypeError" ELSE ""]

\* the position of main() after an iteration
AfterIteration(s, r) ==
  [s EXCEPT !.runs = Append(@, r),
            !.i    = @ + 1,
            !.pc   = IF r.err # "" THEN "raised"
                     ELSE IF s.i + 1 = Len(s.args.algorithms) THEN "done"
                     ELSE "loop"]

SelectableAlgorithms == {"eigenface", "plda", "gmm", "lrpca", "lda-ir"}

Databases == {"atnt", "banca", "xm2vts"}

\* command lines without --evaluate: execution of the jobs is requested
CommandLines ==
  { [algorithms |-> al, database |-> d, grid |-> g, parallel |-> p,
     zt_norm |-> z, dry_run |-> q, baseline_directory |-> "baselines"] :
      al \in UNION { [1..n -> SelectableAlgorithms] : n \in 1..MaxAlgs },
      d \in Databases, g \in BOOLEAN, p \in {NoneVal, "2"},
      z \in BOOLEAN, q \in BOOLEAN }

InitBaselines ==
  /\ args = NoArgs
  /\ self = NoSelf
  /\ last = NoLast
  /\ nops = 0
  /\ libStrict = TRUE
  /\ \E a \in CommandLines, h \in Helpers :
       script = [pc |-> "loop", args |-> a, helpers |-> h, i |-> 0, runs |-> <<>>]

\* the body of the loop over args.algorithms for the next algorithm
RunAlgorithm ==
  /\ script.pc = "loop"
  /\ script' = AfterIteration(script,
                 Iteration(script.args, script.args.algorithms[script.i + 1],
                           Command(script.args, script.args.algorithms[script.i + 1]),
                           script.helpers))
  /\ UNCHANGED <<args, self, last, nops, libStrict>>

SpecBaselines == InitBaselines /\ [][RunAlgorithm]_vars

\* ================================================================== claims
\* what the claims read off the constructor arguments and the last call
ArgWavelets == args.gabor_scales * args.gabor_directions

ArgJetLength == ArgWavelets * (IF args.use_gabor_phases THEN 2 ELSE 1)

Returned == last.op = "call" /\ last.err = ""

\* element [i] of a 1-D array
At1(arr, i) == arr.data[i + 1]

\* element [r, c] of a 2-D array
At2(arr, r, c) == arr.data[r * arr.shape[2] + c + 1]

\* bin k of the histogram of block b that pass p of the last call computed:
\* pass p < wavelet_count is the magnitude of wavelet p, pass p >= wavelet_count
\* the phase of wavelet p - wavelet_count
PassHist(p, b, k) ==
  IF p < ArgWavelets
    THEN HistValue(last.image.content, 0, p, b, k)
    ELSE HistValue(last.image.content, 1, p - ArgWavelets, b, k)

\* the layout rule: bin k of block b of pass p is found at its place in arr
LaidOut(arr, split, nblocks, nbins, p, b, k) ==
  IF split = NoneVal
    THEN /\ Len(arr.shape) = 1
         /\ p * nbins * nblocks + b * nbins + k < arr.shape[1]
         /\ At1(arr, p * nbins * nblocks + b * nbins + k) = PassHist(p, b, k)
  ELSE IF split = "blocks"
    THEN /\ Len(arr.shape) = 2
         /\ b < arr.shape[1] /\ p * nbins + k < arr.shape[2]
         /\ At2(arr, b, p * nbins + k) = PassHist(p, b, k)
  ELSE IF split = "wavelets"
    THEN /\ Len(arr.shape) = 2
         /\ p < arr.shape[1] /\ b * nbins + k < arr.shape[2]
         /\ At2(arr, p, b * nbins + k) = PassHist(p, b, k)
  ELSE /\ Len(arr.shape) = 2
       /\ p * nblocks + b < arr.shape[1] /\ k < arr.shape[2]
       /\ At2(arr, p * nblocks + b, k) = PassHist(p, b, k)

\* C1: after a call that returns, for each of the four split modes, every pass
\* p in [0, jet_length), block b in [0, n_blocks) and bin k in [0, n_bins), the
\* dense array holds bin k of block b's histogram for pass p at the position
\* the layout rule gives; passes below wavelet_count are the magnitudes, pass
\* j + wavelet_count is the phase of wavelet j.
C1_Layout ==
  (Returned /\ IsSplitMode(args.split_histogram)) =>
    LET nblocks == BlockCount(self, last.image.shape)
        nbins   == LbpBins(self)
    IN  \A p \in 0..(ArgJetLength - 1), b \in 0..(nblocks - 1), k \in 0..(nbins - 1) :
          LaidOut(last.dense, args.split_histogram, nblocks, nbins, p, b, k)

C1_Witness ==
  /\ Returned
  /\ args.split_histogram = "both"
  /\ args.use_gabor_phases
  /\ ArgWavelets >= 2
  /\ self.n_blocks >= 2
  /\ At2(last.dense, (ArgWavelets + 1) * self.n_blocks + 1, 1)
       = HistValue(last.image.content, 1, 1, 1, 1)

\* the shape the shape law gives for a split mode
LawShape(split, nblocks, nbins, jet) ==
  IF split = NoneVal THEN <<nblocks * nbins * jet>>
  ELSE IF split = "blocks" THEN <<nblocks, nbins * jet>>
  ELSE IF split = "wavelets" THEN <<jet, nbins * nblocks>>
  ELSE <<jet * nblocks, nbins>>

\* C2: a call that allocates the dense output array allocates it once, with the
\* shape of the shape law for the split mode, where jet_length is wavelet_count
\* without phases and 2 * wavelet_count with them and wavelet_count is
\* scales * directions; a call that returns under a split mode has allocated it.
C2_Shape ==
  /\ (last.op = "call" /\ ~last.dense.isNone) =>
       /\ last.allocs = 1
       /\ IsSplitMode(args.split_histogram)
       /\ last.dense.shape =
            LawShape(args.split_histogram, BlockCount(self, last.image.shape),
                     LbpBins(self), ArgJetLength)
       /\ Len(last.dense.data) = Prod(last.dense.shape)
  /\ (Returned /\ IsSplitMode(args.split_histogram)) => ~last.dense.isNone

C2_Witness ==
  /\ Returned
  /\ args.split_histogram = "wavelets"
  /\ args.use_gabor_phases
  /\ args.gabor_scales = 2
  /\ last.dense.shape = <<4, 12>>

\* height and width of a block argument, a scalar standing for both
ArgHeight(x) == x[1]

ArgWidth(x) == x[Len(x)]

OverlapExceeds(a) ==
  \/ ArgHeight(a.block_overlap) > ArgHeight(a.block_size)
  \/ ArgWidth(a.block_overlap) > ArgWidth(a.block_size)

\* C3: construction produces no instance and raises when block_overlap exceeds
\* block_size in the height or in the width, and when sparse_histogram is set
\* together with one of the split modes; a scalar counts for both dimensions.
C3_Construction ==
  (last.op = "init" /\
     (OverlapExceeds(args) \/
      (args.sparse_histogram /\ args.split_histogram \in {"blocks", "wavelets", "both"})))
    => (~self.alive /\ last.err = "ValueError")

C3_Witness ==
  /\ last.op = "init"
  /\ args.block_size = <<2, 1>>
  /\ args.block_overlap = <<1, 2>>
  /\ ~self.alive
  /\ last.err = "ValueError"

\* the indices of the non-zero entries of a dense array, 0-based
NonZero(x) == { i \in 0..(Len(x.data) - 1) : x.data[i + 1] # 0 }

\* C4: with sparse set, _sparsify of a dense 1-D array x returns a 2-row array:
\* row 0 lists in strictly ascending order exactly the indices i with
\* x[i] # 0, row 1 holds x[i] at the same position; an all-zero x gives two
\* empty rows.
C4_Sparsify ==
  (last.op = "sparsify" /\ self.sparse /\ Len(last.input.shape) = 1) =>
    LET x == last.input
        y == last.output
        n == Cardinality(NonZero(x))
    IN  /\ last.err = ""
        /\ ~y.isNone
        /\ y.shape = <<2, n>>
        /\ Len(y.data) = 2 * n
        /\ \A q \in 1..n : y.data[q] \in NonZero(x)
        /\ \A q \in 1..(n - 1) : y.data[q] < y.data[q + 1]
        /\ \A q \in 1..n : y.data[n + q] = At1(x, y.data[q])

C4_Witness ==
  /\ last.op = "sparsify"
  /\ self.sparse
  /\ last.input.shape = <<2>>
  /\ last.input.data = <<0, 2>>
  /\ last.output.shape = <<2, 1>>
  /\ last.output.data = <<1, 2>>

\* C5: _sparsify applied to what _sparsify returned gives the same array again,
\* for dense and for sparse arrays, the empty 2-row result of an all-zero
\* histogram among them; an array of 2-row shape comes back unchanged, and with
\* sparse unset every array comes back unchanged.
C5_Idempotent ==
  last.op = "sparsify" =>
    /\ nops >= 2 => (last.err = "" /\ last.output = last.input)
    /\ (self.sparse /\ IsSparseShape(last.input)) =>
         (last.err = "" /\ last.output = last.input)
    /\ ~self.sparse => (last.err = "" /\ last.output = last.input)

C5_Witness ==
  /\ last.op = "sparsify"
  /\ nops = 2
  /\ self.sparse
  /\ last.input.shape = <<2, 0>>
  /\ last.output = last.input

\* the (rows, cols) a transform buffer was allocated for
BufferImageShape(buf) == <<buf.shape[2], buf.shape[3]>>

\* C6: construction leaves no transform buffer; a call whose image passes the
\* asserts leaves a buffer of shape (wavelet_count, rows, cols): the one it
\* found when that one was allocated for the same (rows, cols), a newly
\* allocated one when there was none or its (rows, cols) differ; a call whose
\* image fails the asserts leaves the buffer as it was.
C6_BufferLifecycle ==
  [][/\ last'.op = "init" => self'.trafo_image.id = 0
     /\ (last'.op = "call" /\ nops' = nops + 1) =>
          IF ValidImage(last'.image)
            THEN /\ self'.trafo_image.id # 0
                 /\ self'.trafo_image.shape =
                      <<ArgWavelets, last'.image.shape[1], last'.image.shape[2]>>
                 /\ IF self.trafo_image.id # 0
                         /\ BufferImageShape(self.trafo_image) = last'.image.shape
                      THEN self'.trafo_image.id = self.trafo_image.id
                      ELSE self'.trafo_image.id # self.trafo_image.id
            ELSE self'.trafo_image = self.trafo_image]_vars

C6_Witness ==
  /\ last.op = "call"
  /\ nops = 2
  /\ self.trafo_image.id = 2
  /\ self.trafo_image.shape = <<ArgWavelets, 2, 2>>

\* C7: what a call returns (the exception or the array) is what the same call
\* returns on a newly constructed instance of the same configuration, whatever
\* calls came before and whatever the memory of newly allocated arrays held.
C7_Deterministic ==
  last.op = "call" =>
    \A g \in Garbage :
      LET fresh == CallResult(InitSelf(args), last.image, libStrict, 1, g, NoDev)
      IN  /\ fresh.err = last.err
          /\ fresh.output = last.output

C7_Witness ==
  /\ Returned
  /\ nops = 2
  /\ self.trafo_image.id = 2
  /\ self.n_blocks = 4
  /\ ~last.output.isNone

\* some pass of the last call returned histograms of another shape than the
\* first pass
ShapesDisagree == \E i \in 1..Len(last.passes) : last.passes[i] # last.passes[1]

\* C8 (as claimed): a call in which a pass of the histogram primitive returns
\* another block count or bin count than the first pass fails instead of
\* returning an array.
C8_CountsChecked ==
  (last.op = "call" /\ ShapesDisagree) => last.err # ""

\* C9 (as claimed): a call whose image is not 2-D, not float64 or empty fails,
\* returns nothing and leaves the transform buffer as it was.
C9_InvalidInputRejected ==
  [][(last'.op = "call" /\ nops' = nops + 1
        /\ (~ValidImage(last'.image) \/ IsEmptyImage(last'.image))) =>
       (/\ last'.err # ""
        /\ last'.output.isNone
        /\ self'.trafo_image = self.trafo_image)]_vars

\* C10: on an instance whose split is none of None, 'blocks', 'wavelets',
\* 'both', every call fails and neither returns nor allocates an output array;
\* for an image that passes the asserts and that the primitives accept the
\* failure is the ValueError about the split parameter.
C10_BadSplit ==
  (last.op = "call" /\ ~IsSplitMode(args.split_histogram)) =>
    /\ last.err # ""
    /\ last.output.isNone
    /\ last.dense.isNone
    /\ last.allocs = 0
    /\ (ValidImage(last.image) /\ ~Degenerate(self, last.image.shape)) =>
         last.err = "ValueError"

C10_Witness ==
  /\ last.op = "call"
  /\ args.split_histogram = ""
  /\ args.sparse_histogram
  /\ args.use_gabor_phases
  /\ ValidImage(last.image)
  /\ last.image.shape = <<2, 2>>
  /\ last.err = "ValueError"
  /\ last.output.isNone


\* ------------------------------------------------------------------- C11
\* C11: in execution mode an algorithm whose preprocessor for the database is
\* None is skipped: the iteration that warned "Skipping algorithm" built no
\* command, did not reach subprocess.call, and did not end the loop with an
\* exception, so the loop went on with the next algorithm.
C11_Skipped ==
  script.pc # "none" =>
    \A k \in 1..Len(script.runs) :
      script.runs[k].warned =>
        /\ script.runs[k].command = <<>>
        /\ ~script.runs[k].called
        /\ script.runs[k].err = ""


\* ------------------------------------------------------------------- C12
\* the cells of arr (1-based positions in row-major order) that _fill assigns
\* for block b of pass p
WriteCells(s, arr, p, b) ==
  IF FillTarget(s, p, b).row >= NRows(arr) THEN {}
  ELSE { FillTarget(s, p, b).row * NCols(arr) + c :
           c \in (Min(FillTarget(s, p, b).from, NCols(arr)) + 1)
                   .. Min(FillTarget(s, p, b).to, NCols(arr)) }

\* the (pass, block) pairs of one call
WritePairs == (0..(ArgJetLength - 1)) \X (0..(self.n_blocks - 1))

\* C12: when a call with a valid split mode returns, every cell of the dense
\* output array has been written exactly once: each of the n_blocks * jet_length
\* (pass, block) pairs writes n_bins cells, the write ranges of two different
\* pairs are disjoint, their union is the whole array, and no cell still holds
\* the value it had when the array was allocated.
C12_WrittenOnce ==
  (Returned /\ IsSplitMode(self.split)) =>
    /\ \A q \in WritePairs :
         Cardinality(WriteCells(self, last.dense, q[1], q[2])) = self.n_bins
    /\ \A q, r \in WritePairs :
         q # r => WriteCells(self, last.dense, q[1], q[2])
                    \cap WriteCells(self, last.dense, r[1], r[2]) = {}
    /\ UNION { WriteCells(self, last.dense, q[1], q[2]) : q \in WritePairs }
         = 1..Len(last.dense.data)
    /\ \A i \in 1..Len(last.dense.data) : last.dense.data[i] \notin Garbage

C12_Witness ==
  /\ Returned
  /\ self.split = "blocks"
  /\ self.use_phases
  /\ ArgWavelets >= 2
  /\ self.n_blocks >= 2
  /\ self.n_bins >= 2
  /\ Len(last.dense.data) = 2 * ArgWavelets * self.n_blocks * self.n_bins
  /\ WriteCells(self, last.dense, ArgWavelets + 1, 1) # {}

====
